---- MODULE Spec2Model ----
(***************************************************************************)
(* A model of cweno.c, the C kernels of PyWENO: weights (nonlinear WENO     *)
(* weights from smoothness indicators) and reconstruct (k-order stencil    *)
(* reconstructions and their 2k-1 order combination).                      *)
(*                                                                         *)
(* numpy arrays are records of a shape, element strides and a flat data    *)
(* buffer; the C pointers are offsets into the buffer.  A double is an     *)
(* exact decimal-scaled rational n/d * 10^e (or NaN): the arithmetic of    *)
(* the model is exact, the rounding of IEEE doubles is not modelled.       *)
(***************************************************************************)
EXTENDS Integers, Sequences, FiniteSets, TLC

(***************************************************************************)
(* Bounds of the model.                                                    *)
(***************************************************************************)
MaxN == 3
MaxClampN == 6

\* the orders k and the numbers n of evaluation points of the grids
Orders == {1, 2}
Points == {1, 2}
WeightOrders == {1, 2, 3}

(***************************************************************************)
(* doubles: n/d * 10^e with gcd(n,d) = 1, d coprime to 10 and 10 not       *)
(* dividing n (so equal numbers are equal records); d = 0 is NaN.          *)
(***************************************************************************)
Abs(x) == IF x < 0 THEN -x ELSE x

RECURSIVE GCD(_, _)
GCD(a, b) == IF b = 0 THEN a ELSE GCD(b, a % b)

RECURSIVE Pow10(_)
Pow10(x) == IF x = 0 THEN 1 ELSE 10 * Pow10(x - 1)

NaN == [n |-> 0, d |-> 0, e |-> 0]
Zero == [n |-> 0, d |-> 1, e |-> 0]
IsNaN(a) == a.d = 0

RECURSIVE NormR(_, _, _)
NormR(nn, dd, ee) ==
  IF dd % 2 = 0 THEN NormR(nn * 5, dd \div 2, ee - 1)
  ELSE IF dd % 5 = 0 THEN NormR(nn * 2, dd \div 5, ee - 1)
  ELSE IF nn % 10 = 0 THEN NormR(nn \div 10, dd, ee + 1)
  ELSE [n |-> nn, d |-> dd, e |-> ee]

Norm(nn, dd, ee) ==
  IF nn = 0 THEN Zero
  ELSE LET g == GCD(Abs(nn), dd) IN NormR(nn \div g, dd \div g, ee)

Dec(nn, dd, ee) == Norm(nn, dd, ee)
Rat(nn, dd) == Norm(nn, dd, 0)

DAdd(a, b) ==
  IF IsNaN(a) \/ IsNaN(b) THEN NaN
  ELSE IF a.n = 0 THEN b
  ELSE IF b.n = 0 THEN a
  ELSE LET ee == IF a.e < b.e THEN a.e ELSE b.e
           na == a.n * Pow10(a.e - ee)
           nb == b.n * Pow10(b.e - ee)
           g == GCD(a.d, b.d)
       IN Norm(na * (b.d \div g) + nb * (a.d \div g), (a.d \div g) * b.d, ee)

DMul(a, b) ==
  IF IsNaN(a) \/ IsNaN(b) THEN NaN
  ELSE Norm(a.n * b.n, a.d * b.d, a.e + b.e)

\* x / 0 is NaN here; the model only ever divides 0 by 0 (see weights).
DDiv(a, b) ==
  IF IsNaN(a) \/ IsNaN(b) \/ b.n = 0 THEN NaN
  ELSE IF b.n > 0 THEN Norm(a.n * b.d, a.d * b.n, a.e - b.e)
  ELSE Norm(-(a.n * b.d), a.d * (-b.n), a.e - b.e)

DNeg(a) == [a EXCEPT !.n = -a.n]
DLt(a, b) == ~IsNaN(a) /\ ~IsNaN(b) /\ DAdd(a, DNeg(b)).n < 0
DEq(a, b) == ~IsNaN(a) /\ ~IsNaN(b) /\ a = b
One == Rat(1, 1)

(***************************************************************************)
(* numpy arrays.                                                           *)
(***************************************************************************)
RECURSIVE Prod(_, _)
Prod(dims, from) == IF from > Len(dims) THEN 1 ELSE dims[from] * Prod(dims, from + 1)

\* a C-contiguous array of the given shape over the given buffer
CArray(dims, data) ==
  [dim |-> dims,
   stride |-> [a \in 1..Len(dims) |-> Prod(dims, a + 1)],
   data |-> data]

\* the leading axes of a C-contiguous array with one more trailing axis of
\* length m: a view such as a[..., 0], whose elements are m doubles apart
View(dims, m, data) ==
  [dim |-> dims,
   stride |-> [a \in 1..Len(dims) |-> m * Prod(dims, a + 1)],
   data |-> data]

Size(arr) == Cardinality(DOMAIN arr.data)

PyArray_DIM(arr, a) == arr.dim[a + 1]
PyArray_GETPTR1(arr, i) == i * arr.stride[1]
PyArray_GETPTR2(arr, i, j) == i * arr.stride[1] + j * arr.stride[2]
PyArray_GETPTR3(arr, i, j, l) == i * arr.stride[1] + j * arr.stride[2] + l * arr.stride[3]
PyArray_GETPTR4(arr, i, j, l, m) ==
  i * arr.stride[1] + j * arr.stride[2] + l * arr.stride[3] + m * arr.stride[4]

max(a, b) == IF a > b THEN a ELSE b
min(a, b) == IF a < b THEN a ELSE b

(***************************************************************************)
(* Seeded faults.  A definition marked "fault" below is a variant of the   *)
(* definition that follows it, with one plausible slip; the properties are *)
(* expected to fail when it takes the place of the definition.             *)
(***************************************************************************)

(***************************************************************************)
(* dot - dot product of the n doubles at u (contiguous) and the n doubles  *)
(* at v (stride s), accumulated in index order.                            *)
(***************************************************************************)
RECURSIVE dotLoop(_, _, _, _, _, _, _, _)
dotLoop(umem, u, vmem, v, nn, ss, i, d) ==
  IF i < nn
  THEN dotLoop(umem, u + 1, vmem, v + ss, nn, ss, i + 1,
               DAdd(d, DMul(umem[u + 1], vmem[v + ss])))
  ELSE d

\* fault: v is advanced by 1 instead of the stride s
RECURSIVE dotLoopUnitStride(_, _, _, _, _, _, _)
dotLoopUnitStride(umem, u, vmem, v, nn, i, d) ==
  IF i < nn
  THEN dotLoopUnitStride(umem, u + 1, vmem, v + 1, nn, i + 1,
                         DAdd(d, DMul(umem[u + 1], vmem[v + 1])))
  ELSE d
dot_unit_stride(umem, u, vmem, v, nn, ss) ==
  dotLoopUnitStride(umem, u, vmem, v, nn, 1, DMul(umem[u], vmem[v]))

\* fault: the loop stops one element early (i < n-1)
dot_short(umem, u, vmem, v, nn, ss) ==
  dotLoop(umem, u, vmem, v, nn - 1, ss, 1, DMul(umem[u], vmem[v]))

dot(umem, u, vmem, v, nn, ss) ==
  dotLoop(umem, u, vmem, v, nn, ss, 1, DMul(umem[u], vmem[v]))

(***************************************************************************)
(* alpha                                                                   *)
(***************************************************************************)
\* the literal 10e-6
Epsilon == Dec(10, 1, -6)

\* fault: multiplies by (10e-6 + s)^2 instead of dividing
alpha_product(wv, sv) == DMul(wv, DMul(DAdd(Epsilon, sv), DAdd(Epsilon, sv)))

alpha(wv, sv) == DDiv(wv, DMul(DAdd(Epsilon, sv), DAdd(Epsilon, sv)))

VARIABLES sigma_py, w_py, wr_py, q_py, c_py, qr_py, qs_py, ret,
          wr_in, qr_in, qs_in, wdone, rdone, s_py

vars == <<sigma_py, w_py, wr_py, q_py, c_py, qr_py, qs_py, ret,
          wr_in, qr_in, qs_in, wdone, rdone, s_py>>

(***************************************************************************)
(* weights                                                                 *)
(***************************************************************************)
weights_rmin(NN, kk, i) == max(0, i - (NN - kk) - 1)
\* fault: rmax is not clamped to the cell index
weights_rmax_unclamped(NN, kk, i) == kk - 1

weights_rmax(NN, kk, i) == min(kk - 1, i)

\* fault: sum_alpha = *wr instead of sum_alpha += *wr
RECURSIVE alphaLoop_assign(_, _, _, _, _, _, _, _, _)
alphaLoop_assign(wrmem, sum_alpha, r, rmax, wr, wmem, w, sigmamem, sigma) ==
  IF r <= rmax
  THEN LET a == alpha(wmem[w], sigmamem[sigma])
       IN alphaLoop_assign([wrmem EXCEPT ![wr] = a], a, r + 1, rmax,
                           wr + 1, wmem, w + 1, sigmamem, sigma + 1)
  ELSE [mem |-> wrmem, sum_alpha |-> sum_alpha]

\* for (r=rmin; r<=rmax; r++) { *wr = alpha(w, sigma); sum_alpha += *wr; ... }
RECURSIVE alphaLoop(_, _, _, _, _, _, _, _, _)
alphaLoop(wrmem, sum_alpha, r, rmax, wr, wmem, w, sigmamem, sigma) ==
  IF r <= rmax
  THEN LET a == alpha(wmem[w], sigmamem[sigma])
       IN alphaLoop([wrmem EXCEPT ![wr] = a], DAdd(sum_alpha, a), r + 1, rmax,
                    wr + 1, wmem, w + 1, sigmamem, sigma + 1)
  ELSE [mem |-> wrmem, sum_alpha |-> sum_alpha]

\* fault: the normalization stops one shift early (r < rmax)
RECURSIVE normalizeLoop_short(_, _, _, _, _)
normalizeLoop_short(wrmem, sum_alpha, r, rmax, wr) ==
  IF r < rmax
  THEN normalizeLoop_short([wrmem EXCEPT ![wr] = DDiv(wrmem[wr], sum_alpha)],
                           sum_alpha, r + 1, rmax, wr + 1)
  ELSE wrmem

\* for (r=rmin; r<=rmax; r++) { *wr /= sum_alpha; wr++; }
RECURSIVE normalizeLoop(_, _, _, _, _)
normalizeLoop(wrmem, sum_alpha, r, rmax, wr) ==
  IF r <= rmax
  THEN normalizeLoop([wrmem EXCEPT ![wr] = DDiv(wrmem[wr], sum_alpha)],
                     sum_alpha, r + 1, rmax, wr + 1)
  ELSE wrmem

\* the body of the cell loop for cell i
weightsCell(i, sigmaA, wA, wrA, wrmem) ==
  LET NN == PyArray_DIM(wA, 0)
      kk == PyArray_DIM(wA, 1)
      rmin == weights_rmin(NN, kk, i)
      rmax == weights_rmax(NN, kk, i)
      first == alphaLoop(wrmem, Zero, rmin, rmax,
                         PyArray_GETPTR2(wrA, i, rmin),
                         wA.data, PyArray_GETPTR2(wA, i, rmin),
                         sigmaA.data, PyArray_GETPTR2(sigmaA, i, rmin))
  IN normalizeLoop(first.mem, first.sum_alpha, rmin, rmax,
                   PyArray_GETPTR2(wrA, i, rmin))

\* fault: sum_alpha is set to 0.0 once, before the cell loop
RECURSIVE weightsLoopCarry(_, _, _, _, _, _, _)
weightsLoopCarry(i, imax, sigmaA, wA, wrA, wrmem, sum_alpha) ==
  IF i <= imax
  THEN LET NN == PyArray_DIM(wA, 0)
           kk == PyArray_DIM(wA, 1)
           rmin == weights_rmin(NN, kk, i)
           rmax == weights_rmax(NN, kk, i)
           first == alphaLoop(wrmem, sum_alpha, rmin, rmax,
                              PyArray_GETPTR2(wrA, i, rmin),
                              wA.data, PyArray_GETPTR2(wA, i, rmin),
                              sigmaA.data, PyArray_GETPTR2(sigmaA, i, rmin))
       IN weightsLoopCarry(i + 1, imax, sigmaA, wA, wrA,
                           normalizeLoop(first.mem, first.sum_alpha, rmin, rmax,
                                         PyArray_GETPTR2(wrA, i, rmin)),
                           first.sum_alpha)
  ELSE wrmem
weightsLoop_carry(i, imax, sigmaA, wA, wrA, wrmem) ==
  weightsLoopCarry(i, imax, sigmaA, wA, wrA, wrmem, Zero)

\* for (i=imin; i<=imax; i++) { ... }
RECURSIVE weightsLoop(_, _, _, _, _, _)
weightsLoop(i, imax, sigmaA, wA, wrA, wrmem) ==
  IF i <= imax
  THEN weightsLoop(i + 1, imax, sigmaA, wA, wrA,
                   weightsCell(i, sigmaA, wA, wrA, wrmem))
  ELSE wrmem

\* the data of wr after weights(imin, imax, sigma, w, wr) has returned None
weights(imin, imax, sigmaA, wA, wrA) ==
  weightsLoop(imin, imax, sigmaA, wA, wrA, wrA.data)

\* the NPY_IN_ARRAY tests, in the order of the code: the argument the
\* TypeError names, or "" when every tested array is contiguous and aligned
weightsCheck(bad) ==
  IF "sigma" \in bad THEN "sigma is not contiguous and/or aligned"
  ELSE IF "w" \in bad THEN "w is not contiguous and/or aligned"
  ELSE IF "wr" \in bad THEN "wr is not contiguous and/or aligned"
  ELSE ""

(***************************************************************************)
(* reconstruct                                                             *)
(***************************************************************************)
reconstruct_rmin(kk, s) == max(0, s)
reconstruct_rmax(kk, s) == min(kk - 1 + s, kk - 1)

\* for (l=0; l<n; l++) { *qr = dot(c, q, k, q_stride); c += k; qr++; }
RECURSIVE pointLoop(_, _, _, _, _, _, _, _, _, _)
pointLoop(qrmem, qr, cmem, c, qmem, q, kk, q_stride, l, nn) ==
  IF l < nn
  THEN pointLoop([qrmem EXCEPT ![qr] = dot(cmem, c, qmem, q, kk, q_stride)],
                 qr + 1, cmem, c + kk, qmem, q, kk, q_stride, l + 1, nn)
  ELSE qrmem

\* for (r=rmin; r<rmax+1; r++) { q = ...; c = ...; qr = ...; for (l ...) }
RECURSIVE shiftLoop(_, _, _, _, _, _, _, _, _, _)
shiftLoop(qrmem, i, r, rmax, qA, cA, qrA, kk, nn, q_stride) ==
  IF r < rmax + 1
  THEN shiftLoop(pointLoop(qrmem, PyArray_GETPTR3(qrA, i, r, 0),
                           cA.data, PyArray_GETPTR4(cA, i, r, 0, 0),
                           qA.data, PyArray_GETPTR1(qA, i - r),
                           kk, q_stride, 0, nn),
                 i, r + 1, rmax, qA, cA, qrA, kk, nn, q_stride)
  ELSE qrmem

\* the k-order loop: for (i=imin; i<=imax; i++) { rmin = ...; rmax = ...; }
RECURSIVE stencilLoop(_, _, _, _, _, _, _, _, _, _)
stencilLoop(qrmem, i, imax, s, qA, cA, qrA, kk, nn, q_stride) ==
  IF i <= imax
  THEN stencilLoop(shiftLoop(qrmem, i, reconstruct_rmin(kk, s), reconstruct_rmax(kk, s),
                             qA, cA, qrA, kk, nn, q_stride),
                   i + 1, imax, s, qA, cA, qrA, kk, nn, q_stride)
  ELSE qrmem

\* for (l=0; l<n; l++) { *qs = dot(wr, qr, k, n); qs += q_stride; qr++; }
RECURSIVE combineLoop(_, _, _, _, _, _, _, _, _, _)
combineLoop(qsmem, qs, wrmem, wr, qrmem, qr, kk, nn, q_stride, l) ==
  IF l < nn
  THEN combineLoop([qsmem EXCEPT ![qs] = dot(wrmem, wr, qrmem, qr, kk, nn)],
                   qs + q_stride, wrmem, wr, qrmem, qr + 1, kk, nn, q_stride, l + 1)
  ELSE qsmem

\* fault: wr is not advanced to the next cell (wr += k missing)
RECURSIVE wenoLoop_stuck(_, _, _, _, _, _, _, _, _, _, _)
wenoLoop_stuck(qsmem, i, imax, wrmem, wr, qrA, qrmem, qsA, kk, nn, q_stride) ==
  IF i <= imax
  THEN wenoLoop_stuck(combineLoop(qsmem, PyArray_GETPTR2(qsA, i, 0), wrmem, wr,
                                  qrmem, PyArray_GETPTR3(qrA, i, 0, 0), kk, nn,
                                  q_stride, 0),
                      i + 1, imax, wrmem, wr, qrA, qrmem, qsA, kk, nn, q_stride)
  ELSE qsmem

\* the 2k-1 order loop: for (i=imin; i<=imax; i++) { ...; wr += k; }
RECURSIVE wenoLoop(_, _, _, _, _, _, _, _, _, _, _)
wenoLoop(qsmem, i, imax, wrmem, wr, qrA, qrmem, qsA, kk, nn, q_stride) ==
  IF i <= imax
  THEN wenoLoop(combineLoop(qsmem, PyArray_GETPTR2(qsA, i, 0), wrmem, wr,
                            qrmem, PyArray_GETPTR3(qrA, i, 0, 0), kk, nn, q_stride, 0),
                i + 1, imax, wrmem, wr + kk, qrA, qrmem, qsA, kk, nn, q_stride)
  ELSE qsmem

\* the data of qr and qs after reconstruct(q, s, imin, imax, c, wr, qr, qs)
\* has returned None
reconstruct(qA, s, imin, imax, cA, wrA, qrA, qsA) ==
  LET kk == PyArray_DIM(cA, 1)
      nn == PyArray_DIM(cA, 2)
      qrmem == stencilLoop(qrA.data, imin, imax, s, qA, cA, qrA, kk, nn,
                           PyArray_GETPTR1(qA, 1) - PyArray_GETPTR1(qA, 0))
  IN [qr |-> qrmem,
      qs |-> wenoLoop(qsA.data, imin, imax, wrA.data, PyArray_GETPTR2(wrA, imin, 0),
                      qrA, qrmem, qsA, kk, nn,
                      PyArray_GETPTR2(qsA, imin, 1) - PyArray_GETPTR2(qsA, imin, 0))]

\* fault: the test of wr is missing
reconstructCheck_no_wr(bad) ==
  IF "c" \in bad THEN "c is not contiguous and/or aligned"
  ELSE IF "qr" \in bad THEN "qr is not contiguous and/or aligned"
  ELSE ""

\* the NPY_IN_ARRAY tests of reconstruct, in the order of the code; q and qs
\* are not tested
reconstructCheck(bad) ==
  IF "c" \in bad THEN "c is not contiguous and/or aligned"
  ELSE IF "wr" \in bad THEN "wr is not contiguous and/or aligned"
  ELSE IF "qr" \in bad THEN "qr is not contiguous and/or aligned"
  ELSE ""

\* "imin and imax have to be compatible with s": every stencil the k-order
\* loop reads lies inside q
Compatible(s, imin, imax, NN, kk) ==
  \A i \in imin..imax : \A r \in reconstruct_rmin(kk, s)..reconstruct_rmax(kk, s) :
    0 <= i - r /\ i - r + kk - 1 <= NN - 1

(***************************************************************************)
(* Inputs.                                                                 *)
(***************************************************************************)
SigmaVals == <<Zero, Dec(1, 1, -5), Dec(9, 1, -5)>>
WVals == <<Rat(1, 3), Rat(2, 3), One, Zero>>
JunkVals == <<Rat(7, 1), Rat(-3, 1)>>

\* a buffer of the given size cycling through vals from position p0 in
\* steps of p1 (p1 = 0: a constant buffer)
Fill(size, vals, p0, p1) ==
  [a \in 0..(size - 1) |-> vals[((p0 + p1 * a) % Len(vals)) + 1]]

Fills(size, vals) ==
  {Fill(size, vals, p0, p1) : p0 \in 0..(Len(vals) - 1), p1 \in 0..1}

Ranges(NN) == {rg \in (0..(NN - 1)) \X (0..(NN - 1)) : rg[1] <= rg[2]}

WeightsArrays == {"sigma", "w", "wr"}

\* the layouts of a rejected call: one of the tested arrays is not
\* contiguous or not aligned, or all of them are
BadLayouts(arrays) == {{a} : a \in arrays} \cup {arrays}

Untouched ==
  [dim |-> <<1>>, stride |-> <<1>>, data |-> [a \in 0..0 |-> Zero]]

\* the last call: the function, its range, the layouts it was passed (the
\* arrays that were not contiguous or not aligned) and what it returned
Call(fn, imin, imax, bad, val, err) ==
  [fn |-> fn, imin |-> imin, imax |-> imax, bad |-> bad, val |-> val, err |-> err]
NoCall == Call("", 0, 0, {}, "", "")

InitW ==
  /\ \E NN \in 1..MaxN : \E kk \in {x \in WeightOrders : x <= NN} :
       /\ sigma_py \in {CArray(<<NN, kk>>, f) : f \in Fills(NN * kk, SigmaVals)}
       /\ w_py \in {CArray(<<NN, kk>>, f) : f \in Fills(NN * kk, WVals)}
       /\ wr_py \in {CArray(<<NN, kk>>, f) :
                       f \in {Fill(NN * kk, <<Zero>>, 0, 0),
                              Fill(NN * kk, JunkVals, 0, 1)}}
  /\ q_py = Untouched /\ c_py = Untouched /\ qr_py = Untouched /\ qs_py = Untouched
  /\ ret = NoCall
  /\ wr_in = wr_py /\ qr_in = qr_py /\ qs_in = qs_py
  /\ wdone = {} /\ rdone = {} /\ s_py = 0

\* A call weights(imin, imax, sigma, w, wr): the layout tests, then the cell
\* loop.  A TypeError ends the run of the caller.  Within one reconstruction
\* step the caller computes weights before it reconstructs from them.
Weights ==
  /\ ret.val # "NULL"
  /\ \E bad \in {{}} \cup BadLayouts(WeightsArrays) :
       IF weightsCheck(bad) # ""
       THEN /\ ret' = Call("weights", 0, 0, bad, "NULL", weightsCheck(bad))
            /\ UNCHANGED <<sigma_py, w_py, wr_py, q_py, c_py, qr_py, qs_py,
                           wr_in, qr_in, qs_in, wdone, rdone, s_py>>
       ELSE /\ rdone = {}
            /\ \E rg \in Ranges(PyArray_DIM(w_py, 0)) :
                 /\ wr_py' = [wr_py EXCEPT !.data =
                                weights(rg[1], rg[2], sigma_py, w_py, wr_py)]
                 /\ ret' = Call("weights", rg[1], rg[2], bad, "None", "")
                 /\ wdone' = wdone \cup (rg[1]..rg[2])
            /\ UNCHANGED <<sigma_py, w_py, q_py, c_py, qr_py, qs_py,
                           wr_in, qr_in, qs_in, rdone, s_py>>

NextW == Weights

SpecW == InitW /\ [][NextW]_vars

(***************************************************************************)
(* The two kernels together.                                               *)
(***************************************************************************)
ReconstructArrays == {"c", "wr", "qr"}
QVal == Rat(5, 2)
CVals == <<Rat(1, 2), Rat(-1, 2), Rat(3, 2)>>

\* coefficients whose rows c[i, r, l, :] sum to 1
UnitRows(size, kk) ==
  [a \in 0..(size - 1) |->
     LET d == Rat(((a \div kk) % 3) + 1, 2) IN
       IF kk = 1 THEN One
       ELSE IF a % kk = 0 THEN DAdd(Rat(1, kk), d)
       ELSE IF a % kk = kk - 1 THEN DAdd(Rat(1, kk), DNeg(d))
       ELSE Rat(1, kk)]

\* the cell averages: a ramp 1, 2, 3, ... or the constant QVal
Ramp(i) == Rat(i + 1, 1)
Flat(i) == QVal

\* the buffer under q, a view of stride m: the cell averages are a ramp or
\* flat, the other components are junk
QData(NN, m, flat) ==
  [a \in 0..(NN * m - 1) |->
     IF a % m # 0 THEN JunkVals[1]
     ELSE IF flat THEN Flat(a \div m) ELSE Ramp(a \div m)]

Init ==
  /\ \E kk \in Orders : \E nn \in Points : \E m \in 1..2 :
       LET NN == MaxN IN
       /\ sigma_py = CArray(<<NN, kk>>, Fill(NN * kk, SigmaVals, 1, 1))
       /\ w_py = CArray(<<NN, kk>>, Fill(NN * kk, WVals, 2, 1))
       /\ wr_py = CArray(<<NN, kk>>, Fill(NN * kk, JunkVals, 0, 1))
       /\ q_py \in {View(<<NN>>, m, QData(NN, m, flat)) : flat \in BOOLEAN}
       /\ c_py \in {CArray(<<NN, kk, nn, kk>>, UnitRows(NN * kk * nn * kk, kk)),
                    CArray(<<NN, kk, nn, kk>>, Fill(NN * kk * nn * kk, CVals, 0, 1))}
       /\ qr_py = CArray(<<NN, kk, nn>>, Fill(NN * kk * nn, JunkVals, 1, 1))
       /\ qs_py = View(<<NN, nn>>, m, Fill(NN * nn * m, JunkVals, 0, 1))
  /\ s_py \in {s \in -1..1 : Abs(s) <= PyArray_DIM(c_py, 1) - 1}
  /\ ret = NoCall
  /\ wr_in = wr_py /\ qr_in = qr_py /\ qs_in = qs_py
  /\ wdone = {} /\ rdone = {}

\* A call reconstruct(q, s, imin, imax, c, wr, qr, qs) on a range compatible
\* with s: the layout tests, then the two loops.
Reconstruct ==
  /\ ret.val # "NULL"
  /\ \E bad \in {{}} \cup BadLayouts(ReconstructArrays) :
       IF reconstructCheck(bad) # ""
       THEN /\ ret' = Call("reconstruct", 0, 0, bad, "NULL", reconstructCheck(bad))
            /\ UNCHANGED <<sigma_py, w_py, wr_py, q_py, c_py, qr_py, qs_py,
                           wr_in, qr_in, qs_in, wdone, rdone, s_py>>
       ELSE /\ \E rg \in Ranges(PyArray_DIM(c_py, 0)) :
                 /\ Compatible(s_py, rg[1], rg[2],
                               PyArray_DIM(c_py, 0), PyArray_DIM(c_py, 1))
                 /\ LET res == reconstruct(q_py, s_py, rg[1], rg[2],
                                           c_py, wr_py, qr_py, qs_py) IN
                      /\ qr_py' = [qr_py EXCEPT !.data = res.qr]
                      /\ qs_py' = [qs_py EXCEPT !.data = res.qs]
                 /\ ret' = Call("reconstruct", rg[1], rg[2], bad, "None", "")
                 /\ rdone' = rdone \cup (rg[1]..rg[2])
            /\ UNCHANGED <<sigma_py, w_py, wr_py, q_py, c_py,
                           wr_in, qr_in, qs_in, wdone, s_py>>

Next == Weights \/ Reconstruct

Spec == Init /\ [][Next]_vars

\* grids of every size up to MaxClampN with every order k <= N, smooth data
InitClamp ==
  /\ \E NN \in 1..MaxClampN : \E kk \in 1..NN :
       /\ sigma_py = CArray(<<NN, kk>>, Fill(NN * kk, <<Zero>>, 0, 0))
       /\ w_py = CArray(<<NN, kk>>, Fill(NN * kk, <<One>>, 0, 0))
       /\ wr_py = CArray(<<NN, kk>>, Fill(NN * kk, JunkVals, 0, 1))
  /\ q_py = Untouched /\ c_py = Untouched /\ qr_py = Untouched /\ qs_py = Untouched
  /\ ret = NoCall
  /\ wr_in = wr_py /\ qr_in = qr_py /\ qs_in = qs_py
  /\ wdone = {} /\ rdone = {} /\ s_py = 0

SpecClamp == InitClamp /\ [][NextW]_vars

(***************************************************************************)
(* Properties.                                                             *)
(***************************************************************************)
At2(arr, i, r) == arr.data[PyArray_GETPTR2(arr, i, r)]
Cells(arr) == 0..(PyArray_DIM(arr, 0) - 1)
Shifts(arr) == 0..(PyArray_DIM(arr, 1) - 1)

\* the admissible shifts of cell i on a grid of NN cells with order kk
Admissible(NN, kk, i) ==
  (IF i - (NN - kk) - 1 > 0 THEN i - (NN - kk) - 1 ELSE 0) ..
  (IF kk - 1 < i THEN kk - 1 ELSE i)
AdmissibleOf(arr, i) == Admissible(PyArray_DIM(arr, 0), PyArray_DIM(arr, 1), i)

RECURSIVE SumRow(_, _, _)
SumRow(arr, i, rs) ==
  IF rs = {} THEN Zero
  ELSE LET r == CHOOSE x \in rs : \A y \in rs : x <= y
       IN DAdd(At2(arr, i, r), SumRow(arr, i, rs \ {r}))

\* C1: after weights, the weights wr[i, r] of every processed cell i, summed
\* over its admissible shifts, are 1, when no w[i, r] of the range is
\* negative and one is positive.
C1_Normalized ==
  \A i \in wdone :
    LET rs == AdmissibleOf(w_py, i) IN
      ((\A r \in rs : ~DLt(At2(w_py, i, r), Zero))
        /\ (\E r \in rs : DLt(Zero, At2(w_py, i, r))))
      => DEq(SumRow(wr_py, i, rs), One)

\* a processed cell with two admissible shifts of different smoothness and
\* positive optimal weights, whose weights sum to 1
C1_Witness ==
  \E i \in wdone :
    LET rs == AdmissibleOf(w_py, i) IN
      /\ Cardinality(rs) >= 2
      /\ \A r \in rs : DLt(Zero, At2(w_py, i, r))
      /\ \E r1, r2 \in rs : At2(sigma_py, i, r1) # At2(sigma_py, i, r2)
      /\ \E r1, r2 \in rs : At2(wr_py, i, r1) # At2(wr_py, i, r2)
      /\ DEq(SumRow(wr_py, i, rs), One)

\* C3: where sigma is the same for every admissible shift of a processed
\* cell and w sums to 1 over them, weights returns wr[i, r] = w[i, r].
C3_UniformCollapse ==
  \A i \in wdone :
    LET rs == AdmissibleOf(w_py, i) IN
      ((\A r1, r2 \in rs : At2(sigma_py, i, r1) = At2(sigma_py, i, r2))
        /\ DEq(SumRow(w_py, i, rs), One))
      => \A r \in rs : DEq(At2(wr_py, i, r), At2(w_py, i, r))

\* a processed cell with two admissible shifts of the same non-zero sigma
\* and different optimal weights, which wr reproduces
C3_Witness ==
  \E i \in wdone :
    LET rs == AdmissibleOf(w_py, i) IN
      /\ Cardinality(rs) >= 2
      /\ \A r1, r2 \in rs : At2(sigma_py, i, r1) = At2(sigma_py, i, r2)
      /\ \E r \in rs : At2(sigma_py, i, r) # Zero
      /\ \E r1, r2 \in rs : At2(w_py, i, r1) # At2(w_py, i, r2)
      /\ DEq(SumRow(w_py, i, rs), One)
      /\ \A r \in rs : DEq(At2(wr_py, i, r), At2(w_py, i, r))

\* sigma with sigma[i, r] replaced by v
WithSigma(i, r, v) ==
  [sigma_py EXCEPT !.data[PyArray_GETPTR2(sigma_py, i, r)] = v]

\* wr[i, r] as weights computes it for cell i from the given sigma
WrFor(sigmaA, i, r) ==
  weights(i, i, sigmaA, w_py, wr_py)[PyArray_GETPTR2(wr_py, i, r)]

LargerSigmas(v) ==
  {SigmaVals[a] : a \in 1..Len(SigmaVals)} \cup {DAdd(v, Epsilon), DAdd(DMul(Rat(10, 1), v), Dec(9, 1, -5))}

AdmissibleOffsets(cells) ==
  UNION {{PyArray_GETPTR2(wr_py, i, r) : r \in AdmissibleOf(w_py, i)} : i \in cells}

\* C10: weights writes wr[i, r] only for the cells i of its range and their
\* admissible shifts r; every other element of wr is as the caller passed
\* it, and sigma and w are never written.
C10_WeightsFrame ==
  [][/\ sigma_py' = sigma_py
     /\ w_py' = w_py
     /\ \A p \in DOMAIN wr_py.data :
          p \notin AdmissibleOffsets(wdone') => wr_py'.data[p] = wr_in.data[p]]_vars

\* weights has processed a boundary cell: its admissible shifts are
\* rewritten and its other shifts still hold what the caller passed
C10_Witness ==
  \E i \in wdone :
    /\ AdmissibleOf(w_py, i) # Shifts(w_py)
    /\ \A r \in AdmissibleOf(w_py, i) : At2(wr_py, i, r) # At2(wr_in, i, r)
    /\ \A r \in Shifts(w_py) \ AdmissibleOf(w_py, i) :
         /\ At2(wr_py, i, r) = At2(wr_in, i, r)
         /\ At2(wr_in, i, r) # Zero

(***************************************************************************)
(* Properties of reconstruct.                                              *)
(***************************************************************************)
Order == PyArray_DIM(c_py, 1)
NPoints == PyArray_DIM(c_py, 2)
At1(arr, i) == arr.data[PyArray_GETPTR1(arr, i)]
At3(arr, i, r, l) == arr.data[PyArray_GETPTR3(arr, i, r, l)]
At4(arr, i, r, l, j) == arr.data[PyArray_GETPTR4(arr, i, r, l, j)]

\* the shifts the k-order loop reconstructs under the bias s
Eligible(kk, s) ==
  (IF s > 0 THEN s ELSE 0) .. (IF kk - 1 + s < kk - 1 THEN kk - 1 + s ELSE kk - 1)

\* sum over j = from..kk-1 of c[i, r, l, j] * q[i - r + j]
RECURSIVE Stencil(_, _, _, _)
Stencil(i, r, l, from) ==
  IF from > Order - 1 THEN Zero
  ELSE DAdd(DMul(At4(c_py, i, r, l, from), At1(q_py, i - r + from)),
            Stencil(i, r, l, from + 1))

\* sum over r = from..kk-1 of wr[i, r] * qr[i, r, l]
RECURSIVE Blend(_, _, _, _)
Blend(wrA, i, l, from) ==
  IF from > Order - 1 THEN Zero
  ELSE DAdd(DMul(At2(wrA, i, from), At3(qr_py, i, from, l)),
            Blend(wrA, i, l, from + 1))

\* C6: after reconstruct, qr[i, r, l] is the dot product of the coefficient
\* row c[i, r, l, :] with the cells i-r, ..., i-r+k-1 of q, for every cell of
\* the range, every shift of [max(0, s), min(k-1+s, k-1)] and every point;
\* with k = 1 and c = 1 that is q[i].
C6_StencilDot ==
  \A i \in rdone : \A r \in Eligible(Order, s_py) : \A l \in 0..(NPoints - 1) :
    /\ DEq(At3(qr_py, i, r, l), Stencil(i, r, l, 0))
    /\ (Order = 1 /\ At4(c_py, i, r, l, 0) = One)
         => DEq(At3(qr_py, i, r, l), At1(q_py, i))

\* a two-cell stencil over a strided, non-constant q, reconstructed at two
\* points
C6_Witness ==
  \E i \in rdone : \E r \in Eligible(Order, s_py) :
    /\ Order = 2 /\ NPoints = 2
    /\ q_py.stride[1] = 2
    /\ At1(q_py, i - r) # At1(q_py, i - r + 1)
    /\ \A l \in 0..1 :
         /\ DEq(At3(qr_py, i, r, l), Stencil(i, r, l, 0))
         /\ At3(qr_py, i, r, l) # At3(qr_in, i, r, l)
    /\ At3(qr_py, i, r, 0) # At3(qr_py, i, r, 1)

IsFlat == \A i \in Cells(c_py) : At1(q_py, i) = QVal
UnitCoefficients ==
  \A i \in Cells(c_py) : \A r \in Shifts(c_py) : \A l \in 0..(NPoints - 1) :
    LET RECURSIVE RowSum(_)
        RowSum(j) == IF j > Order - 1 THEN Zero
                     ELSE DAdd(At4(c_py, i, r, l, j), RowSum(j + 1))
    IN RowSum(0) = One

\* C5 as claimed: with q constant C and wr produced by weights for the same
\* cells, every qr[i, r, l] written and every qs[i, l] is C.
C5_ConstantField ==
  (IsFlat /\ UnitCoefficients)
    => \A i \in rdone \cap wdone : \A l \in 0..(NPoints - 1) :
         /\ \A r \in Eligible(Order, s_py) : DEq(At3(qr_py, i, r, l), QVal)
         /\ DEq(At2(qs_py, i, l), QVal)

\* C5 amended: with q constant C every qr[i, r, l] written is C, and
\* qs[i, l] is C where s = 0 and weights has normalized the cell from
\* optimal weights of which none is negative and one is positive.
C5_ConstantFieldUnbiased ==
  (IsFlat /\ UnitCoefficients)
    => \A i \in rdone : \A l \in 0..(NPoints - 1) :
         /\ \A r \in Eligible(Order, s_py) : DEq(At3(qr_py, i, r, l), QVal)
         /\ (/\ i \in wdone
             /\ s_py = 0
             /\ \A r \in Shifts(w_py) : ~DLt(At2(w_py, i, r), Zero)
             /\ \E r \in Shifts(w_py) : DLt(Zero, At2(w_py, i, r)))
              => DEq(At2(qs_py, i, l), QVal)

\* an unbiased reconstruction of a constant field from two stencils with
\* different non-zero weights
C5_Witness ==
  /\ IsFlat /\ UnitCoefficients /\ s_py = 0 /\ Order = 2
  /\ \E i \in rdone \cap wdone :
       /\ At2(wr_py, i, 0) # At2(wr_py, i, 1)
       /\ DLt(Zero, At2(wr_py, i, 0)) /\ DLt(Zero, At2(wr_py, i, 1))
       /\ \A l \in 0..(NPoints - 1) :
            /\ DEq(At2(qs_py, i, l), QVal)
            /\ At2(qs_in, i, l) # QVal
            /\ \A r \in 0..1 : At3(qr_in, i, r, l) # QVal

\* wr with wr[i, r] replaced by v
WithWr(i, r, v) == [wr_py EXCEPT !.data[PyArray_GETPTR2(wr_py, i, r)] = v]

\* C8 as claimed: for a boundary cell, qs[i, l] does not depend on the
\* wr[i, r] outside the admissible shifts of the cell.
C8_ClampedCombination ==
  \A i \in rdone : \A r \in Shifts(w_py) \ AdmissibleOf(w_py, i) :
    \A v \in {Zero, One} :
      \A l \in 0..(NPoints - 1) :
        reconstruct(q_py, s_py, i, i, c_py, WithWr(i, r, v), qr_py, qs_py)
          .qs[PyArray_GETPTR2(qs_py, i, l)] = At2(qs_py, i, l)

\* C8 amended: qs[i, l] is the dot product of all k weights wr[i, 0..k-1]
\* with qr[i, 0..k-1, l], for boundary cells as for the others, so that a
\* change of a wr[i, r] outside the admissible shifts changes qs[i, l] by
\* the change times qr[i, r, l].
C8_FullCombination ==
  \A i \in rdone : \A l \in 0..(NPoints - 1) :
    /\ At2(qs_py, i, l) = Blend(wr_py, i, l, 0)
    /\ \A r \in Shifts(w_py) \ AdmissibleOf(w_py, i) : \A v \in {Zero, One} :
         reconstruct(q_py, s_py, i, i, c_py, WithWr(i, r, v), qr_py, qs_py)
           .qs[PyArray_GETPTR2(qs_py, i, l)] = Blend(WithWr(i, r, v), i, l, 0)

\* a boundary cell whose weight outside its admissible shifts is part of
\* qs: with that weight zeroed qs would be another value
C8_Witness ==
  \E i \in rdone \cap wdone : \E r \in Shifts(w_py) \ AdmissibleOf(w_py, i) :
    \E l \in 0..(NPoints - 1) :
      /\ ~IsNaN(At2(qs_py, i, l))
      /\ At2(qs_py, i, l) = Blend(wr_py, i, l, 0)
      /\ At2(wr_py, i, r) = At2(wr_in, i, r)
      /\ Blend(WithWr(i, r, Zero), i, l, 0) # At2(qs_py, i, l)

(***************************************************************************)
(* Properties of both kernels.                                             *)
(***************************************************************************)
\* C-contiguous: the strides are those of the shape
IsContiguous(arr) ==
  \A a \in 1..Len(arr.dim) : arr.stride[a] = Prod(arr.dim, a + 1)

\* the array arguments of the last call that were not contiguous or not
\* aligned
BadArguments ==
  ret.bad
    \cup (IF ret.fn = "reconstruct" /\ ~IsContiguous(q_py) THEN {"q"} ELSE {})
    \cup (IF ret.fn = "reconstruct" /\ ~IsContiguous(qs_py) THEN {"qs"} ELSE {})

\* C7 as claimed: a call with any array argument not contiguous or not
\* aligned returns an error.
C7_AnyArrayRejected ==
  (ret.fn # "" /\ BadArguments # {}) => ret.val = "NULL"

\* C7 amended: a call of weights with sigma, w or wr, or of reconstruct with
\* c, wr or qr, not contiguous or not aligned returns NULL with a TypeError
\* naming the first such array and leaves wr, qr and qs as they were; q and
\* qs are not tested, and reconstruct works through their strides.
C7_TestedArraysRejected ==
  [][ret'.bad # {} =>
       /\ ret'.val = "NULL"
       /\ \E a \in ret'.bad : ret'.err = a \o " is not contiguous and/or aligned"
       /\ wr_py' = wr_py /\ qr_py' = qr_py /\ qs_py' = qs_py]_vars

\* reconstruct has been rejected for the layout of wr after both kernels had
\* written their outputs
C7_Witness ==
  /\ ret.fn = "reconstruct" /\ ret.val = "NULL" /\ "wr" \in ret.bad
  /\ ret.err = "wr is not contiguous and/or aligned"
  /\ wdone # {} /\ rdone # {}
  /\ wr_py # wr_in /\ qr_py # qr_in /\ qs_py # qs_in

RowsOf(arr, cells) ==
  {p \in DOMAIN arr.data :
     \E i \in cells : PyArray_GETPTR1(arr, i) <= p /\ p < PyArray_GETPTR1(arr, i + 1)}

SameOn(f, g, S) == [p \in S |-> f[p]] = [p \in S |-> g[p]]
SameBoth(one, S, T) == SameOn(qr_py.data, one.qr, S) /\ SameOn(qs_py.data, one.qs, T)

\* C9: the cells are independent: whichever calls have processed the cells
\* lo..hi, in whatever order, wr (qr and qs) holds for them what one call
\* over lo..hi writes, and all of wr (qr and qs) is what that call leaves
\* when no other cell has been processed.
C9_CellsIndependent ==
  \A lo, hi \in Cells(w_py) :
    /\ (lo <= hi /\ (lo..hi) \subseteq wdone) =>
         SameOn(wr_py.data, weights(lo, hi, sigma_py, w_py, wr_in),
                IF wdone = lo..hi THEN DOMAIN wr_py.data ELSE RowsOf(wr_py, lo..hi))
    /\ (lo <= hi /\ (lo..hi) \subseteq rdone) =>
         SameBoth(reconstruct(q_py, s_py, lo, hi, c_py, wr_py, qr_in, qs_in),
                  IF rdone = lo..hi THEN DOMAIN qr_py.data ELSE RowsOf(qr_py, lo..hi),
                  IF rdone = lo..hi THEN DOMAIN qs_py.data ELSE RowsOf(qs_py, lo..hi))

\* both kernels have processed the cells 0 and 1, reconstruct cell 0 last
\* and alone (the reverse of the order of one call over 0..1), and the
\* arrays are as one call of each over 0..1 leaves them
C9_Witness ==
  /\ ret.fn = "reconstruct" /\ ret.val = "None" /\ ret.imin = 0 /\ ret.imax = 0
  /\ rdone = 0..1 /\ wdone = 0..1
  /\ PyArray_DIM(c_py, 1) = 2
  /\ wr_py.data = weights(0, 1, sigma_py, w_py, wr_in)
  /\ qr_py.data = reconstruct(q_py, s_py, 0, 1, c_py, wr_py, qr_in, qs_in).qr
  /\ qs_py.data = reconstruct(q_py, s_py, 0, 1, c_py, wr_py, qr_in, qs_in).qs
  /\ \A i \in 0..1 : At2(wr_py, i, 0) # At2(wr_in, i, 0)
  /\ \A i \in 0..1 : At2(qs_py, i, 0) # At2(qs_in, i, 0)

\* C2: every shift weights writes for a cell has its k-cell stencil
\* i-r, ..., i-r+k-1 inside the grid; on a grid of 5 cells with k = 3 the
\* only shift of cell 0 is 0 and the only shift of cell 4 is 2.
C2_StencilsInside ==
  \A i \in wdone :
    LET NN == PyArray_DIM(w_py, 0)
        kk == PyArray_DIM(w_py, 1)
        written == {r \in Shifts(w_py) : At2(wr_py, i, r) # At2(wr_in, i, r)}
    IN /\ \A r \in written : 0 <= i - r /\ i - r + kk - 1 <= NN - 1
       /\ (NN = 5 /\ kk = 3 /\ i = 0) => written = {0}
       /\ (NN = 5 /\ kk = 3 /\ i = 4) => written = {2}

====
